---- MODULE Spec2Model ----
(***************************************************************************)
(* Model of the timeslots finder (finder.go): Find and FindWithMapper      *)
(* subtract a collection of busy blocks from a search span and return the  *)
(* free slots.  One call is executed step by step: the prologue (options,  *)
(* early exits, clone, in-place sort), one step per loop iteration, and    *)
(* the code after the loop.  Time points are small integers.               *)
(***************************************************************************)
EXTENDS Integers, Sequences, FiniteSets

\* Time points are 0..MaxTime; a caller passes at most MaxBlocks blocks.
MaxTime == 3
MaxBlocks == 2

Times == 0..MaxTime

VARIABLES
    blocks,     \* the caller's block collection (shared backing array)
    span,       \* the caller's *Span object, or NilSpan
    variant,    \* which entry point runs: "Find" or "FindWithMapper"
    pc,         \* "idle", "loop", "after", "done", "panic"
    options,    \* Options: [isSetFilter |-> BOOLEAN]
    target,     \* the object made by span.Clone()
    targetRef,  \* which object the local `target` points to: "clone" or "span"
    i,          \* 1-based position of the range loop
    j,          \* write index into slots (0-based, as in the code)
    slots,      \* the result buffer, make([]T, len+1)
    ret,        \* the returned slice
    calls,      \* how often mapin, mapout and the filter were invoked
    filter,     \* the filter predicate as far as it has answered: [yes, no]
    branch      \* the branch the last loop iteration took

vars == <<blocks, span, variant, pc, options, target, targetRef, i, j, slots,
          ret, calls, filter, branch>>

-----------------------------------------------------------------------------
\* Periods: Block, Span and Slot all expose Start and End.

Period(s, e) == [start |-> s, end |-> e]
Periods == {Period(s, e) : s \in Times, e \in Times}

NilSpan == [nil |-> TRUE]
NilSlot == [nil |-> TRUE]

\* NewBlockWithoutValidating: no check of start < end.
NewBlockWithoutValidating(s, e) == Period(s, e)

\* NewBlock succeeds exactly when start < end.
ValidBlock(b) == b.start < b.end

\* block.Contains(p): block fully covers p.
Contains(block, p) ==
    p.start >= block.start /\ p.end <= block.end

\* block.IsContainedIn(p): block fully inside p.
IsContainedIn(block, p) ==
    p.start <= block.start /\ block.end <= p.end

\* block.OverlapAtStart(p): block eats the front of p.
OverlapAtStart(block, p) ==
    block.start <= p.start /\ p.start < block.end /\ block.end <= p.end

\* block.OverlapAtEnd(p): block eats the tail of p.
OverlapAtEnd(block, p) ==
    p.start <= block.start /\ block.start < p.end /\ p.end <= block.end

\* span.Remain(): there is room left to report.
Remain(s) == s.start < s.end

\* span.Clone(): a fresh object with the same bounds.
Clone(s) == Period(s.start, s.end)

\* span.Shorten(block): Start advances to block.End.
Shorten(s, block) == [s EXCEPT !.start = block.end]

\* span.Drop(): Remain becomes false.
Drop(s) == [s EXCEPT !.start = s.end]

\* span.ToSlot(): the remaining window as a Slot.
ToSlot(s) == Period(s.start, s.end)

\* createSlotFrom(target, block): the gap from target.Start to block.Start.
createSlotFrom(t, block) == Period(t.start, block.start)

-----------------------------------------------------------------------------
\* The state of one call, as a record the code's steps transform.

World ==
    [blocks |-> blocks, span |-> span, variant |-> variant, pc |-> pc,
     options |-> options, target |-> target, targetRef |-> targetRef,
     i |-> i, j |-> j, slots |-> slots, ret |-> ret, calls |-> calls,
     filter |-> filter, branch |-> branch, asked |-> NilSlot]

Commit(w) ==
    /\ blocks' = w.blocks
    /\ span' = w.span
    /\ variant' = w.variant
    /\ pc' = w.pc
    /\ options' = w.options
    /\ target' = w.target
    /\ targetRef' = w.targetRef
    /\ i' = w.i
    /\ j' = w.j
    /\ slots' = w.slots
    /\ ret' = w.ret
    /\ calls' = w.calls
    /\ filter' = w.filter
    /\ branch' = w.branch

NoCalls == [mapin |-> 0, mapout |-> 0, filter |-> 0]

\* The world before a call on the given collection and span.
Idle(bs, sp) ==
    [blocks |-> bs, span |-> sp, variant |-> "none", pc |-> "idle",
     options |-> [isSetFilter |-> FALSE], target |-> NilSpan,
     targetRef |-> "clone", i |-> 0, j |-> 0, slots |-> <<>>, ret |-> <<>>,
     calls |-> NoCalls, filter |-> [yes |-> {}, no |-> {}],
     branch |-> "none", asked |-> NilSlot]

\* The object the local variable `target` points to, and a write through it.
Target(w) == IF w.targetRef = "span" THEN w.span ELSE w.target

SetTarget(w, v) ==
    IF w.targetRef = "span" THEN [w EXCEPT !.span = v]
    ELSE [w EXCEPT !.target = v]

\* Variant: the window is the caller's span itself, not a clone.
CloneTargetAlias(w) == [w EXCEPT !.targetRef = "span"]

\* target := span.Clone()
CloneTarget(w) == [w EXCEPT !.target = Clone(w.span), !.targetRef = "clone"]

\* sort.Slice(blocks, less by Start): every permutation of the collection
\* that is ascending in Start; the order among equal Starts is unspecified.
Orderings(n) ==
    {p \in [1..n -> 1..n] : \A a, b \in 1..n : a # b => p[a] # p[b]}

\* Variant: a copy is sorted, the caller's collection is left as it was.
SortSliceCopy(s) == {s}

SortSlice(s) ==
    {t \in {[k \in 1..Len(s) |-> s[p[k]]] : p \in Orderings(Len(s))} :
        \A a, b \in 1..Len(s) : a < b => t[a].start <= t[b].start}

\* options.IsSetFilter() && options.FilterFunc(slot): the predicate is asked
\* only when set; its answer is recorded.
FilterFunc(w, out, ans) ==
    [w EXCEPT !.calls.filter = @ + 1,
              !.asked = out,
              !.filter = IF ans THEN [@ EXCEPT !.yes = @ \cup {out}]
                         ELSE [@ EXCEPT !.no = @ \cup {out}]]

\* slots[j] = slot; j++   (a write past the buffer panics)
Store(w, out) ==
    IF w.j + 1 > Len(w.slots) THEN [w EXCEPT !.pc = "panic"]
    ELSE [w EXCEPT !.slots[w.j + 1] = out, !.j = @ + 1]

\* return slots[:j]
Return(w) == [w EXCEPT !.ret = SubSeq(w.slots, 1, w.j), !.pc = "done"]

\* continue / break of the range loop
Continue(w) ==
    IF w.pc # "loop" THEN w
    ELSE IF w.i < Len(w.blocks) THEN [w EXCEPT !.i = @ + 1]
    ELSE [w EXCEPT !.pc = "after"]

Break(w) == IF w.pc # "loop" THEN w ELSE [w EXCEPT !.pc = "after"]

-----------------------------------------------------------------------------
\* Find

\* Variant: the collection is sorted before the span is looked at.
FindPrologueSortFirst(w, withFilter, sorted) ==
    LET w0 == [w EXCEPT !.variant = "Find",
                        !.options = [isSetFilter |-> withFilter],
                        !.blocks = sorted]
    IN  IF w0.span = NilSpan \/ ~Remain(w0.span)
        THEN [w0 EXCEPT !.ret = <<>>, !.pc = "done"]
        ELSE LET w1 == CloneTarget(w0)
             IN  IF Len(w1.blocks) = 0
                 THEN [w1 EXCEPT !.ret = <<ToSlot(Target(w1))>>, !.pc = "done"]
                 ELSE [w1 EXCEPT !.j = 0,
                                 !.slots = [k \in 1..(Len(w1.blocks) + 1) |-> NilSlot],
                                 !.i = 1,
                                 !.pc = "loop"]

\* Variant: the result buffer has one entry per block, without the extra one.
FindPrologueShortBuffer(w, withFilter, sorted) ==
    LET w0 == [w EXCEPT !.variant = "Find",
                        !.options = [isSetFilter |-> withFilter]]
    IN  IF w0.span = NilSpan \/ ~Remain(w0.span)
        THEN [w0 EXCEPT !.ret = <<>>, !.pc = "done"]
        ELSE LET w1 == CloneTarget(w0)
             IN  IF Len(w1.blocks) = 0
                 THEN [w1 EXCEPT !.ret = <<ToSlot(Target(w1))>>, !.pc = "done"]
                 ELSE [w1 EXCEPT !.blocks = sorted,
                                 !.j = 0,
                                 !.slots = [k \in 1..Len(w1.blocks) |-> NilSlot],
                                 !.i = 1,
                                 !.pc = "loop"]

\* Find, up to the loop: options, early exits, clone, sort, buffer.
FindPrologue(w, withFilter, sorted) ==
    LET w0 == [w EXCEPT !.variant = "Find",
                        !.options = [isSetFilter |-> withFilter]]
    IN  IF w0.span = NilSpan \/ ~Remain(w0.span)
        THEN [w0 EXCEPT !.ret = <<>>, !.pc = "done"]
        ELSE LET w1 == CloneTarget(w0)
             IN  IF Len(w1.blocks) = 0
                 THEN [w1 EXCEPT !.ret = <<ToSlot(Target(w1))>>, !.pc = "done"]
                 ELSE [w1 EXCEPT !.blocks = sorted,
                                 !.j = 0,
                                 !.slots = [k \in 1..(Len(w1.blocks) + 1) |-> NilSlot],
                                 !.i = 1,
                                 !.pc = "loop"]

\* if block.Contains(target) { target.Drop(); break }
FindContains(w, ans) ==
    Break(SetTarget([w EXCEPT !.branch = "Contains"], Drop(Target(w))))

\* Variant: the front overlap is skipped without shortening the window.
FindOverlapAtStartSkip(w, ans) ==
    Continue([w EXCEPT !.branch = "OverlapAtStart"])

\* if block.OverlapAtStart(target) { target.Shorten(block); continue }
FindOverlapAtStart(w, ans) ==
    Continue(SetTarget([w EXCEPT !.branch = "OverlapAtStart"],
                       Shorten(Target(w), w.blocks[w.i])))

\* Variant: the slot is emitted but the window is not shortened.
FindIsContainedInNoShorten(w, ans) ==
    LET block == w.blocks[w.i]
        slot == createSlotFrom(Target(w), block)
        w1 == [w EXCEPT !.branch = "IsContainedIn"]
    IN  IF w1.options.isSetFilter
        THEN LET w2 == FilterFunc(w1, slot, ans)
             IN  IF ans THEN Continue(w2) ELSE Continue(Store(w2, slot))
        ELSE Continue(Store(w1, slot))

\* if block.IsContainedIn(target) { ... }
FindIsContainedIn(w, ans) ==
    LET block == w.blocks[w.i]
        slot == createSlotFrom(Target(w), block)
        w1 == SetTarget([w EXCEPT !.branch = "IsContainedIn"],
                        Shorten(Target(w), block))
    IN  IF w1.options.isSetFilter
        THEN LET w2 == FilterFunc(w1, slot, ans)
             IN  IF ans THEN Continue(w2) ELSE Continue(Store(w2, slot))
        ELSE Continue(Store(w1, slot))

\* if block.OverlapAtEnd(target) { ... }
FindOverlapAtEnd(w, ans) ==
    LET block == w.blocks[w.i]
        slot == createSlotFrom(Target(w), block)
        w1 == SetTarget([w EXCEPT !.branch = "OverlapAtEnd"], Drop(Target(w)))
    IN  IF w1.options.isSetFilter
        THEN LET w2 == FilterFunc(w1, slot, ans)
             IN  IF ans THEN Break(w2) ELSE Break(Store(w2, slot))
        ELSE Break(Store(w1, slot))

\* Variant: IsContainedIn is tested before OverlapAtStart.
FindLoopBodyContainedFirst(w, ans) ==
    LET block == w.blocks[w.i]
        t == Target(w)
    IN  IF Contains(block, t) THEN FindContains(w, ans)
        ELSE IF IsContainedIn(block, t) THEN FindIsContainedIn(w, ans)
        ELSE IF OverlapAtStart(block, t) THEN FindOverlapAtStart(w, ans)
        ELSE IF OverlapAtEnd(block, t) THEN FindOverlapAtEnd(w, ans)
        ELSE Continue([w EXCEPT !.branch = "none"])

\* Variant: OverlapAtStart is tested before Contains.
FindLoopBodyStartFirst(w, ans) ==
    LET block == w.blocks[w.i]
        t == Target(w)
    IN  IF OverlapAtStart(block, t) THEN FindOverlapAtStart(w, ans)
        ELSE IF Contains(block, t) THEN FindContains(w, ans)
        ELSE IF IsContainedIn(block, t) THEN FindIsContainedIn(w, ans)
        ELSE IF OverlapAtEnd(block, t) THEN FindOverlapAtEnd(w, ans)
        ELSE Continue([w EXCEPT !.branch = "none"])

\* One iteration of `for _, block := range blocks`.
FindLoopBody(w, ans) ==
    LET block == w.blocks[w.i]
        t == Target(w)
    IN  IF Contains(block, t) THEN FindContains(w, ans)
        ELSE IF OverlapAtStart(block, t) THEN FindOverlapAtStart(w, ans)
        ELSE IF IsContainedIn(block, t) THEN FindIsContainedIn(w, ans)
        ELSE IF OverlapAtEnd(block, t) THEN FindOverlapAtEnd(w, ans)
        ELSE Continue([w EXCEPT !.branch = "none"])

\* Variant: what is left of the window after the loop is not emitted.
FindTailNoRest(w, ans) == Return(w)

\* The code after the loop.
FindTail(w, ans) ==
    IF ~Remain(Target(w)) THEN Return(w)
    ELSE LET slot == ToSlot(Target(w))
         IN  IF w.options.isSetFilter
             THEN LET w2 == FilterFunc(w, slot, ans)
                  IN  IF ans THEN Return(w2)
                      ELSE LET w3 == Store(w2, slot)
                           IN IF w3.pc = "panic" THEN w3 ELSE Return(w3)
             ELSE LET w3 == Store(w, slot)
                  IN IF w3.pc = "panic" THEN w3 ELSE Return(w3)

-----------------------------------------------------------------------------
\* FindWithMapper

\* mapin: the caller's item to a *Block with the same Start and End.
MapIn(input) == NewBlockWithoutValidating(input.start, input.end)

\* mapout: a *Slot to the caller's result type, keeping its bounds.
MapOut(slot) == [from |-> slot.start, until |-> slot.end]

\* The bounds of a caller's result value, as a Slot.
Bounds(out) == Period(out.from, out.until)

CallMapIn(w) == [w EXCEPT !.calls.mapin = @ + 1]
CallMapOut(w) == [w EXCEPT !.calls.mapout = @ + 1]

\* FindWithMapper, up to the loop.
FindWithMapperPrologue(w, withFilter, sorted) ==
    LET w0 == [w EXCEPT !.variant = "FindWithMapper",
                        !.options = [isSetFilter |-> withFilter]]
    IN  IF w0.span = NilSpan \/ ~Remain(w0.span)
        THEN [w0 EXCEPT !.ret = <<>>, !.pc = "done"]
        ELSE LET w1 == CloneTarget(w0)
             IN  IF Len(w1.blocks) = 0
                 THEN [CallMapOut(w1) EXCEPT
                          !.ret = <<MapOut(ToSlot(Target(w1)))>>, !.pc = "done"]
                 ELSE [w1 EXCEPT !.blocks = sorted,
                                 !.j = 0,
                                 !.slots = [k \in 1..(Len(w1.blocks) + 1) |-> NilSlot],
                                 !.i = 1,
                                 !.pc = "loop"]

\* if block.Contains(target) { target.Drop(); break }
FindWithMapperContains(w, ans) ==
    Break(SetTarget([w EXCEPT !.branch = "Contains"], Drop(Target(w))))

\* if block.OverlapAtStart(target) { target.Shorten(block); continue }
FindWithMapperOverlapAtStart(w, ans) ==
    Continue(SetTarget([w EXCEPT !.branch = "OverlapAtStart"],
                       Shorten(Target(w), MapIn(w.blocks[w.i]))))

\* Variant: a filtered slot ends the scan instead of continuing it.
FindWithMapperIsContainedInBreak(w, ans) ==
    LET block == MapIn(w.blocks[w.i])
        slot == MapOut(createSlotFrom(Target(w), block))
        w1 == SetTarget(CallMapOut([w EXCEPT !.branch = "IsContainedIn"]),
                        Shorten(Target(w), block))
    IN  IF w1.options.isSetFilter
        THEN LET w2 == FilterFunc(w1, slot, ans)
             IN  IF ans THEN Break(w2) ELSE Continue(Store(w2, slot))
        ELSE Continue(Store(w1, slot))

\* if block.IsContainedIn(target) { ... }
FindWithMapperIsContainedIn(w, ans) ==
    LET block == MapIn(w.blocks[w.i])
        slot == MapOut(createSlotFrom(Target(w), block))
        w1 == SetTarget(CallMapOut([w EXCEPT !.branch = "IsContainedIn"]),
                        Shorten(Target(w), block))
    IN  IF w1.options.isSetFilter
        THEN LET w2 == FilterFunc(w1, slot, ans)
             IN  IF ans THEN Continue(w2) ELSE Continue(Store(w2, slot))
        ELSE Continue(Store(w1, slot))

\* if block.OverlapAtEnd(target) { ... }
FindWithMapperOverlapAtEnd(w, ans) ==
    LET block == MapIn(w.blocks[w.i])
        slot == MapOut(createSlotFrom(Target(w), block))
        w1 == SetTarget(CallMapOut([w EXCEPT !.branch = "OverlapAtEnd"]),
                        Drop(Target(w)))
    IN  IF w1.options.isSetFilter
        THEN LET w2 == FilterFunc(w1, slot, ans)
             IN  IF ans THEN Break(w2) ELSE Break(Store(w2, slot))
        ELSE Break(Store(w1, slot))

\* One iteration of `for _, input := range inputs`.
FindWithMapperLoopBody(w, ans) ==
    LET block == MapIn(w.blocks[w.i])
        t == Target(w)
        wm == CallMapIn(w)
    IN  IF Contains(block, t) THEN FindWithMapperContains(wm, ans)
        ELSE IF OverlapAtStart(block, t) THEN FindWithMapperOverlapAtStart(wm, ans)
        ELSE IF IsContainedIn(block, t) THEN FindWithMapperIsContainedIn(wm, ans)
        ELSE IF OverlapAtEnd(block, t) THEN FindWithMapperOverlapAtEnd(wm, ans)
        ELSE Continue([wm EXCEPT !.branch = "none"])

\* The code after the loop.
FindWithMapperTail(w, ans) ==
    IF ~Remain(Target(w)) THEN Return(w)
    ELSE LET slot == MapOut(ToSlot(Target(w)))
             w1 == CallMapOut(w)
         IN  IF w1.options.isSetFilter
             THEN LET w2 == FilterFunc(w1, slot, ans)
                  IN  IF ans THEN Return(w2)
                      ELSE LET w3 == Store(w2, slot)
                           IN IF w3.pc = "panic" THEN w3 ELSE Return(w3)
             ELSE LET w3 == Store(w1, slot)
                  IN IF w3.pc = "panic" THEN w3 ELSE Return(w3)

-----------------------------------------------------------------------------
\* The filter is a pure predicate: it never answers both ways on one value.
Pure(w) == w.filter.yes \cap w.filter.no = {}

BlockSeqs == UNION {[1..n -> Periods] : n \in 0..MaxBlocks}

Init ==
    /\ blocks \in BlockSeqs
    /\ span \in Periods \cup {NilSpan}
    /\ variant = "none"
    /\ pc = "idle"
    /\ options = [isSetFilter |-> FALSE]
    /\ target = NilSpan
    /\ targetRef = "clone"
    /\ i = 0
    /\ j = 0
    /\ slots = <<>>
    /\ ret = <<>>
    /\ calls = NoCalls
    /\ filter = [yes |-> {}, no |-> {}]
    /\ branch = "none"

FindEnter ==
    /\ pc = "idle"
    /\ \E withFilter \in BOOLEAN, sorted \in SortSlice(blocks) :
          Commit(FindPrologue(World, withFilter, sorted))

FindIterate ==
    /\ pc = "loop"
    /\ variant = "Find"
    /\ \E ans \in BOOLEAN :
          LET w == FindLoopBody(World, ans) IN Pure(w) /\ Commit(w)

FindFinish ==
    /\ pc = "after"
    /\ variant = "Find"
    /\ \E ans \in BOOLEAN :
          LET w == FindTail(World, ans) IN Pure(w) /\ Commit(w)

FindWithMapperEnter ==
    /\ pc = "idle"
    /\ \E withFilter \in BOOLEAN, sorted \in SortSlice(blocks) :
          Commit(FindWithMapperPrologue(World, withFilter, sorted))

FindWithMapperIterate ==
    /\ pc = "loop"
    /\ variant = "FindWithMapper"
    /\ \E ans \in BOOLEAN :
          LET w == FindWithMapperLoopBody(World, ans) IN Pure(w) /\ Commit(w)

FindWithMapperFinish ==
    /\ pc = "after"
    /\ variant = "FindWithMapper"
    /\ \E ans \in BOOLEAN :
          LET w == FindWithMapperTail(World, ans) IN Pure(w) /\ Commit(w)

Next ==
    \/ FindEnter
    \/ FindIterate
    \/ FindFinish
    \/ FindWithMapperEnter
    \/ FindWithMapperIterate
    \/ FindWithMapperFinish

Spec == Init /\ [][Next]_vars

-----------------------------------------------------------------------------
\* Vocabulary of the properties.

AllValid(bs) == \A k \in 1..Len(bs) : ValidBlock(bs[k])

\* Time point t lies in the half-open period [start, end).
InPeriod(t, p) == p.start <= t /\ t < p.end

\* The bounds of the returned values, whichever entry point ran.
RetBounds ==
    [k \in 1..Len(ret) |->
        IF variant = "FindWithMapper" THEN Bounds(ret[k]) ELSE ret[k]]

SpanHasRoom == span # NilSpan /\ Remain(span)

DisjointIncreasing(s) ==
    \A k \in 1..(Len(s) - 1) :
        s[k].end <= s[k + 1].start /\ s[k].start < s[k + 1].start

\* C2 as stated: for any input to Find, blocks from the unchecked constructor
\* included, the returned slots are pairwise disjoint and strictly increasing
\* in Start.
C2_AnyInput ==
    (pc = "done" /\ variant = "Find") => DisjointIncreasing(ret)

\* C2 (Disjointness and ordering), amended: for blocks each with Start < End,
\* any span and any filter, the slots Find returns are pairwise disjoint and
\* strictly increasing in Start.
C2_DisjointOrdered ==
    (pc = "done" /\ variant = "Find" /\ AllValid(blocks))
    => DisjointIncreasing(ret)

\* Two blocks, a filter that was asked, and at least two slots returned.
C2_Witness ==
    /\ pc = "done" /\ variant = "Find" /\ AllValid(blocks)
    /\ options.isSetFilter /\ calls.filter >= 2
    /\ Len(blocks) = 2 /\ Len(ret) >= 2

NonDegenerate(p) == p.start < p.end

\* Every slot the call has produced so far: stored, returned, or handed to
\* the filter (after mapout, in FindWithMapper).
Produced ==
    {RetBounds[k] : k \in 1..Len(ret)}
    \cup {IF variant = "FindWithMapper" THEN Bounds(slots[k]) ELSE slots[k] :
            k \in 1..j}
    \cup {IF variant = "FindWithMapper" THEN Bounds(o) ELSE o :
            o \in filter.yes \cup filter.no}

\* C3 as stated: every slot returned by Find, and every slot handed to mapout
\* by FindWithMapper, has Start < End.
C3_AnyInput ==
    pc = "done" => \A s \in Produced : NonDegenerate(s)

\* C3 (Non-degeneracy), amended: for blocks each with Start < End, every slot
\* returned by Find and every slot handed to mapout by FindWithMapper has
\* Start < End; a block whose Start equals the window's Start yields no
\* zero-length slot.
C3_NonDegenerate ==
    AllValid(blocks) => \A s \in Produced : NonDegenerate(s)

\* A block starting exactly at the window's start was swept and a slot
\* was returned.
C3_Witness ==
    /\ pc = "done" /\ AllValid(blocks) /\ SpanHasRoom
    /\ Len(blocks) >= 1 /\ blocks[1].start = span.start
    /\ branch = "OverlapAtStart"
    /\ Len(ret) >= 1

\* Find run to its end from world w, the filter answering TRUE exactly on
\* the slots in yes.  Each step is first probed for the slot it hands to the
\* filter, then taken with the predicate's answer on that slot.
RECURSIVE FindRun(_, _)
FindRun(w, yes) ==
    IF w.pc \notin {"loop", "after"} THEN w
    ELSE LET w0 == [w EXCEPT !.asked = NilSlot]
             probe == IF w0.pc = "loop" THEN FindLoopBody(w0, TRUE)
                      ELSE FindTail(w0, TRUE)
             ans == probe.asked # NilSlot /\ probe.asked \in yes
         IN  FindRun(IF w0.pc = "loop" THEN FindLoopBody(w0, ans)
                     ELSE FindTail(w0, ans), yes)

\* Find(bs, sp) on a collection the sort leaves in the order bs, with or
\* without a filter that answers TRUE exactly on yes.
FindResult(bs, sp, withFilter, yes) ==
    FindRun(FindPrologue(Idle(bs, sp), withFilter, bs), yes).ret

\* C4 (Filter exclusion law), as stated: Find with a filter returns the slots
\* of Find without a filter (same blocks, same span), in the same order, minus
\* exactly those on which the filter answers true; so the filter has been
\* asked about every slot of the unfiltered result.
C4_FilterExclusion ==
    (pc = "done" /\ variant = "Find" /\ options.isSetFilter)
    => LET plain == FindResult(blocks, span, FALSE, {})
           Kept(s) == s \in filter.no
       IN  /\ \A k \in 1..Len(plain) : plain[k] \in filter.yes \cup filter.no
           /\ ret = SelectSeq(plain, Kept)

\* The law on the path through the loop (a non-empty collection): it holds
\* there, whatever the blocks.
C4_FilterExclusionNonEmpty ==
    (pc = "done" /\ variant = "Find" /\ options.isSetFilter /\ Len(blocks) > 0)
    => LET plain == FindResult(blocks, span, FALSE, {})
           Kept(s) == s \in filter.no
       IN  /\ \A k \in 1..Len(plain) : plain[k] \in filter.yes \cup filter.no
           /\ ret = SelectSeq(plain, Kept)

\* C5 (Adapter equivalence): FindWithMapper with bound-preserving mapin and
\* mapout returns values with the same bounds, in the same order, as Find on
\* an equal copy of the blocks with the same span and the same filter.
C5_AdapterEquivalence ==
    (pc = "done" /\ variant = "FindWithMapper")
    => RetBounds = FindResult(blocks, span, options.isSetFilter,
                              {Bounds(o) : o \in filter.yes})

\* FindWithMapper went through the loop with a filter that excluded one
\* candidate and kept another.
C5_Witness ==
    /\ pc = "done" /\ variant = "FindWithMapper" /\ options.isSetFilter
    /\ filter.yes # {} /\ Len(ret) >= 1 /\ calls.mapin >= 1

EarlyExit == span = NilSpan \/ ~Remain(span)

\* C6 (Early exit): a call with a nil span or a span with Start >= End
\* returns an empty result at once; the collection keeps its order, the span
\* is untouched and neither mapin, mapout nor the filter is invoked.
C6_EarlyExit ==
    [][(pc = "idle" /\ EarlyExit)
        => /\ pc' = "done"
           /\ ret' = <<>>
           /\ blocks' = blocks
           /\ span' = span
           /\ calls' = NoCalls
           /\ i' = 0]_vars

\* FindWithMapper returned early on a span without room, with a filter set
\* and a collection that is still not in ascending Start order.
C6_Witness ==
    /\ pc = "done" /\ variant = "FindWithMapper" /\ options.isSetFilter
    /\ span # NilSpan /\ ~Remain(span)
    /\ Len(blocks) = 2 /\ blocks[1].start > blocks[2].start
    /\ ret = <<>> /\ calls = NoCalls

NoRelation(block, p) ==
    /\ ~Contains(block, p)
    /\ ~OverlapAtStart(block, p)
    /\ ~IsContainedIn(block, p)
    /\ ~OverlapAtEnd(block, p)

Touching ==
    /\ SpanHasRoom
    /\ Len(blocks) = 1 /\ ValidBlock(blocks[1])
    /\ (blocks[1].end = span.start \/ blocks[1].start = span.end)

\* C7 (Boundary-touching blocks): for a span with room and a single valid
\* block that ends where the span starts or starts where the span ends, none
\* of the four predicates holds between the block and the working window, and
\* Find without a filter returns exactly the slot [S, E).
C7_BoundaryTouching ==
    (Touching /\ variant = "Find")
    => /\ pc = "loop" => NoRelation(blocks[i], Target(World))
       /\ pc = "after" => branch = "none"
       /\ (pc = "done" /\ ~options.isSetFilter) => ret = <<ToSlot(span)>>

\* Find returned the whole span for a block that starts where the span ends.
C7_Witness ==
    /\ Touching /\ variant = "Find" /\ pc = "done" /\ ~options.isSetFilter
    /\ blocks[1].start = span.end
    /\ ret = <<ToSlot(span)>>

\* C8 (Caller's span is never mutated): no step of Find or FindWithMapper
\* changes the span the caller passed, also when the working window is
\* shortened or dropped.
C8_SpanUnchanged ==
    [][span' = span]_vars

\* The working window was shortened or dropped and differs from the span.
C8_Witness ==
    /\ pc = "done" /\ SpanHasRoom
    /\ target # NilSpan /\ target # span
    /\ branch \in {"Contains", "OverlapAtStart", "IsContainedIn", "OverlapAtEnd"}

\* Sequence t holds the elements of s, each as often as s does.
IsPermutation(t, s) ==
    /\ Len(t) = Len(s)
    /\ \A x \in {s[k] : k \in 1..Len(s)} \cup {t[k] : k \in 1..Len(t)} :
          Cardinality({k \in 1..Len(s) : s[k] = x})
          = Cardinality({k \in 1..Len(t) : t[k] = x})

AscendingStart(s) ==
    \A a, b \in 1..Len(s) : a < b => s[a].start <= s[b].start

\* C9 (In-place sort): a call with a span that has room and a non-empty
\* collection leaves the caller's collection a permutation of its elements in
\* ascending Start order: the prologue sorts it in place and no later step
\* touches it, so this is its state at return, early stop or not.
C9_SortedInPlace ==
    [][/\ (pc = "idle" /\ ~EarlyExit /\ Len(blocks) > 0)
            => (IsPermutation(blocks', blocks) /\ AscendingStart(blocks'))
       /\ pc # "idle" => blocks' = blocks
       /\ (pc' = "done" /\ ~EarlyExit /\ Len(blocks) > 0)
            => AscendingStart(blocks')]_vars

\* The scan stopped at the first of two blocks with different Starts.
C9_Witness ==
    /\ pc = "done" /\ SpanHasRoom
    /\ Len(blocks) = 2 /\ blocks[1].start < blocks[2].start
    /\ i = 1 /\ branch \in {"Contains", "OverlapAtEnd"}

\* The predicates that hold between a block and a period.
Holding(block, p) ==
    {n \in {"Contains", "OverlapAtStart", "IsContainedIn", "OverlapAtEnd"} :
        \/ n = "Contains" /\ Contains(block, p)
        \/ n = "OverlapAtStart" /\ OverlapAtStart(block, p)
        \/ n = "IsContainedIn" /\ IsContainedIn(block, p)
        \/ n = "OverlapAtEnd" /\ OverlapAtEnd(block, p)}

\* The first predicate that holds, in the order the loop tests them.
FirstHolding(block, p) ==
    IF Contains(block, p) THEN "Contains"
    ELSE IF OverlapAtStart(block, p) THEN "OverlapAtStart"
    ELSE IF IsContainedIn(block, p) THEN "IsContainedIn"
    ELSE IF OverlapAtEnd(block, p) THEN "OverlapAtEnd"
    ELSE "none"

\* C10 as stated: in every iteration of the sweep over valid blocks at most
\* one of Contains, OverlapAtStart, IsContainedIn, OverlapAtEnd holds between
\* the current block and the live working span.
C10_MutuallyExclusive ==
    (pc = "loop" /\ AllValid(blocks))
    => Cardinality(Holding(blocks[i], Target(World))) <= 1

\* C10 (Mutual exclusion of the predicates), amended: in every iteration at
\* most one of the four predicates holds between the current block and the
\* live working span unless the block shares its Start or its End with the
\* window; when several hold, the iteration acts on the first in the order
\* Contains, OverlapAtStart, IsContainedIn, OverlapAtEnd, and on none when
\* none holds.
C10_ExclusiveOffBoundary ==
    [][pc = "loop"
        => LET block == blocks[i]
               t == Target(World)
           IN  /\ (block.start # t.start /\ block.end # t.end)
                    => Cardinality(Holding(block, t)) <= 1
               /\ branch' = FirstHolding(block, t)]_vars

\* After a contained block, the next block equals the live window: all four
\* predicates hold in this iteration.
C10_Witness ==
    /\ pc = "loop" /\ i = 2 /\ branch = "IsContainedIn"
    /\ AllValid(blocks)
    /\ Cardinality(Holding(blocks[i], Target(World))) = 4
\* Every order in which a caller can hold the elements of collection s.
Arrangements(s) ==
    {[k \in 1..Len(s) |-> s[p[k]]] : p \in Orderings(Len(s))}

\* C11 (Order independence): for a fixed span and filter, Find on any
\* arrangement of the same valid blocks, whatever order the sort leaves among
\* blocks with equal Start, hands the same slots to the filter and returns
\* the same slot sequence.
C11_OrderIndependent ==
    (pc = "done" /\ variant = "Find" /\ AllValid(blocks))
    => \A p \in Arrangements(blocks) : \A sorted \in SortSlice(p) :
          LET w == FindRun(FindPrologue(Idle(p, span), options.isSetFilter,
                                        sorted), filter.yes)
          IN  /\ w.ret = ret
              /\ w.filter.yes \cup w.filter.no = filter.yes \cup filter.no

\* Find returned slots for two valid blocks that share their Start and differ
\* in End, an order the sort does not determine.
C11_Witness ==
    /\ pc = "done" /\ variant = "Find" /\ AllValid(blocks) /\ SpanHasRoom
    /\ Len(blocks) = 2
    /\ blocks[1].start = blocks[2].start /\ blocks[1].end # blocks[2].end
    /\ options.isSetFilter /\ calls.filter >= 1
    /\ Len(ret) >= 1
\* C12 (Result buffer bound): for any blocks, span and filter, in Find and
\* FindWithMapper no write slots[j] goes past the buffer of len(blocks)+1
\* entries: iteration i of the loop starts with j <= i-1, the code after the
\* loop starts with j <= len(blocks), in both j is an index of the buffer,
\* the call never panics, and the returned list has at most len(blocks)+1
\* slots.
C12_BufferBound ==
    /\ pc # "panic"
    /\ j >= 0
    /\ pc = "loop" => (j <= i - 1 /\ i <= Len(blocks) /\ j < Len(slots))
    /\ pc = "after" => (j <= Len(blocks) /\ j < Len(slots))
    /\ pc = "done" => (j <= Len(blocks) + 1 /\ Len(ret) <= Len(blocks) + 1)

\* Every block left a slot and the rest of the window one more: the buffer
\* is full at return.
C12_Witness ==
    /\ pc = "done" /\ Len(blocks) = MaxBlocks
    /\ j = Len(blocks) + 1 /\ Len(ret) = Len(blocks) + 1
    /\ slots[j] # NilSlot

====
